---- MODULE Spec2Model ----
(***************************************************************************)
(* PyDDA: variational multi-Doppler wind retrieval.                        *)
(*                                                                         *)
(* The module models                                                       *)
(*   - pydda/cost_functions/cost_functions.py: J_function, grad_J and the  *)
(*     cost and gradient terms they sum, as operators on integer grids;    *)
(*   - pydda/retrieval/wind_retrieve.py: get_dd_wind_field, as a state     *)
(*     machine whose actions are the consecutive blocks of the function.   *)
(*                                                                         *)
(* Numbers.  Wind components, radial velocities and fall speeds are        *)
(* integers (hundredths of a m/s).  The grid spacing is dx = dy = dz = 1/2 *)
(* so that every quotient np.gradient forms is an integer: a central       *)
(* difference (f[i+1]-f[i-1])/(2h) is f[i+1]-f[i-1] and a one-sided        *)
(* difference (f[1]-f[0])/h is 2*(f[1]-f[0]).  The line-of-sight           *)
(* direction cosines of a radar (cos(el)sin(az), cos(el)cos(az), sin(el))  *)
(* are an integer triple per cell.  Angles are counted in units of pi/180. *)
(***************************************************************************)
EXTENDS Integers, Sequences, FiniteSets, TLC

VARIABLES
    pc,          \* position in get_dd_wind_field / in the evaluation harness
    cfg,         \* the keyword arguments of the call (immutable)
    obs,         \* per radar: the gridded fields of Grids[i]
    bca,         \* bca[<<i,j>>][<<y,x>>]: beam crossing angle of the pair
    winds,       \* the flattened wind vector (3*nz*ny*nx entries)
    weights,     \* weights[i][cell]
    bg_weights,  \* bg_weights[cell]
    wts,         \* wts[i]: the fall speed array of radar i, with its mask
    loopst,      \* iterations, wprevmax, wcurrmax, warnflag of the driver
    result,      \* what the last evaluation / the driver returned
    hist         \* the computations performed so far, in order

vars == <<pc, cfg, obs, bca, winds, weights, bg_weights, wts, loopst, result, hist>>

-----------------------------------------------------------------------------
(* Grid *)

NZ == 2
NY == 2
NX == 2
NRadars == 3

Levels == 0 .. NZ - 1
Rows == 0 .. NY - 1
Cols == 0 .. NX - 1
Cell == Levels \X Rows \X Cols
HCell == Rows \X Cols
Radars == 0 .. NRadars - 1
NCells == NZ * NY * NX

\* A numpy array holds its values: f is evaluated once over its domain
\* rather than at each later use.
Array(f) == IF f = f THEN f ELSE f

\* grid_shape[axis]
Size(axis) == CASE axis = 0 -> NZ [] axis = 1 -> NY [] OTHER -> NX

\* the n-th cell in C order, n = 1 .. NCells
CellAt(n) == <<(n - 1) \div (NY * NX), ((n - 1) % (NY * NX)) \div NX, (n - 1) % NX>>

RECURSIVE SumFirst(_, _)
SumFirst(f, n) == IF n = 0 THEN 0 ELSE f[CellAt(n)] + SumFirst(f, n - 1)

\* np.sum(f) of an array f over the grid
SumCells(f) == SumFirst(f, NCells)

Sq(x) == x * x

Abs(x) == IF x < 0 THEN -x ELSE x

\* index into the flattened (3, nz, ny, nx) array, C order, 1-based
FlatIndex(comp, c) == comp * NCells + c[1] * NY * NX + c[2] * NX + c[3] + 1

\* np.stack((a0, a1, a2), axis=0).flatten()
StackFlatten(a0, a1, a2) ==
  Array(
    [n \in 1 .. 3 * NCells |->
        LET comp == (n - 1) \div NCells
            c == CellAt(((n - 1) % NCells) + 1)
        IN CASE comp = 0 -> a0[c] [] comp = 1 -> a1[c] [] OTHER -> a2[c]])

\* np.reshape(winds, (3, nz, ny, nx))[comp]
Reshape(vec, comp) == Array([c \in Cell |-> vec[FlatIndex(comp, c)]])

\* grad += term
VecAdd(a, b) == Array([n \in 1 .. 3 * NCells |-> a[n] + b[n]])

ZeroField == [c \in Cell |-> 0]

-----------------------------------------------------------------------------
(* Finite differences *)

Shift(c, axis, d) == [c EXCEPT ![axis + 1] = @ + d]

\* np.gradient(f, h, axis=axis) with h = 1/2
Gradient(f, axis) ==
  Array(
    [c \in Cell |->
        LET i == c[axis + 1]
        IN IF i = 0 THEN 2 * (f[Shift(c, axis, 1)] - f[c])
           ELSE IF i = Size(axis) - 1 THEN 2 * (f[c] - f[Shift(c, axis, -1)])
           ELSE f[Shift(c, axis, 1)] - f[Shift(c, axis, -1)]])

Wrap(c, axis, d) == [c EXCEPT ![axis + 1] = (@ + d + Size(axis)) % Size(axis)]

\* scipy.ndimage.filters.laplace(f, out, mode='wrap')
Laplace(f) ==
  Array(
    [c \in Cell |->
        (f[Wrap(c, 0, -1)] - 2 * f[c] + f[Wrap(c, 0, 1)])
      + (f[Wrap(c, 1, -1)] - 2 * f[c] + f[Wrap(c, 1, 1)])
      + (f[Wrap(c, 2, -1)] - 2 * f[c] + f[Wrap(c, 2, 1)])])

\* grad_w[0,:,:] = 0 ; if upper_bc: grad_w[-1,:,:] = 0
Impermeability(gw, upper_bc) ==
  Array(
    [c \in Cell |->
        IF c[1] = 0 THEN 0
        ELSE IF upper_bc /\ c[1] = NZ - 1 THEN 0
        ELSE gw[c]])

-----------------------------------------------------------------------------
(* Fall speed (calculate_fall_speed) *)

\* frz=4500.0, the default of calculate_fall_speed
FrzDefault == 4500

\* grid.point_z['data'] at level k, in metres
GridZ(k) == 3000 * k

\* The (A, B) pair the band table assigns at reflectivity refl (dBZ) and
\* height z, in units of 1/1000 and 1/10000; A and B start as zeros.
BandCoefficients(refl, z, frz) ==
    LET A0 == <<0, 0>>
        A1 == IF z < frz /\ refl < 55 THEN <<-2600, 107>> ELSE A0
        A2 == IF z < frz /\ refl >= 55 /\ refl < 60 THEN <<-2500, 130>> ELSE A1
        A3 == IF z < frz /\ refl > 60 THEN <<-3950, 148>> ELSE A2
        A4 == IF z >= frz /\ refl < 33 THEN <<-817, 63>> ELSE A3
        A5 == IF z >= frz /\ refl >= 33 /\ refl < 49 THEN <<-2500, 130>> ELSE A4
        A6 == IF z >= frz /\ refl > 49 THEN <<-3950, 148>> ELSE A5
    IN A6

\* fallspeed = A*10^(refl*B)*(1.2/rho)^0.4: the power law is irrational, its
\* magnitude at each cell is the input g.fall; it vanishes where A = 0 and
\* is negative elsewhere.  The result carries the mask of the reflectivity.
calculate_fall_speed(g, frz) ==
    [data |-> [c \in Cell |->
                 IF BandCoefficients(g.refl[c], GridZ(c[1]), frz)[1] = 0
                 THEN 0 ELSE -g.fall[c]],
     mask |-> g.reflMask]

-----------------------------------------------------------------------------
(* Data term *)

\* lambda_o = coeff / (rmsVr * rmsVr)
LambdaO(coeff, rmsVr) == coeff \div (rmsVr * rmsVr)

\* v_ar: the wind projected on radar i's line of sight
ProjectedVel(g, wt, u, v, w) ==
  Array(
    [c \in Cell |->
        g.los[c][1] * u[c] + g.los[c][2] * v[c]
        + g.los[c][3] * (w[c] - Abs(wt.data[c]))])

\* a zeroing that forgets the fall speed mask
MaskedCellsNoFall(g, wt) == g.elMask \cup g.azMask \cup g.vrMask

\* the cells where els[i], azs[i], vrs[i] or wts[i] is masked
MaskedCells(g, wt) == g.elMask \cup g.azMask \cup g.vrMask \cup wt.mask

\* the_weight = weights[i] after the four assignments the_weight[mask] = 0.
\* the_weight is a view of weights[i]: the assignments write into weights.
TheWeight(wgt, g, wt) ==
  Array(
    [c \in Cell |-> IF c \in MaskedCells(g, wt) THEN 0 ELSE wgt[c]])

\* np.square(vrs[i]-v_ar)*the_weight as np.sum adds it up: the product is a
\* masked array and the sum skips its masked entries (they add 0).
CostEntries(g, wt, wgt, u, v, w) ==
    LET v_ar == ProjectedVel(g, wt, u, v, w)
        the_weight == TheWeight(wgt, g, wt)
    IN Array([c \in Cell |->
                IF c \in g.elMask \cup g.azMask \cup g.vrMask \cup wt.mask
                THEN 0
                ELSE Sq(g.vr[c] - v_ar[c]) * the_weight[c]])

RECURSIVE SumRadars(_, _)
\* the accumulation over for i in range(len(vrs))
SumRadars(f, n) == IF n = 0 THEN 0 ELSE f[n - 1] + SumRadars(f, n - 1)

calculate_radial_vel_cost_function(vrs, u, v, w, wtl, rmsVr, wgts, coeff) ==
    LET perRadar == [i \in Radars |->
            LambdaO(coeff, rmsVr)
            * SumCells(CostEntries(vrs[i], wtl[i], wgts[i], u, v, w))]
    IN SumRadars(perRadar, NRadars)

\* weights as calculate_radial_vel_cost_function leaves it
WeightsAfterCost(vrs, wtl, wgts) ==
    [i \in Radars |-> TheWeight(wgts[i], vrs[i], wtl[i])]

\* x_grad, y_grad (comp 0, 1) or z_grad (comp 2) of radar i after the
\* assignments that zero it where an input is masked
GradEntries(g, wt, wgt, u, v, w, lam, comp) ==
    LET v_ar == ProjectedVel(g, wt, u, v, w)
        masked == MaskedCells(g, wt)
    IN Array([c \in Cell |->
                IF c \in masked
                THEN 0
                ELSE 2 * (v_ar[c] - g.vr[c]) * g.los[c][comp + 1] * wgt[c] * lam])

calculate_grad_radial_vel(vrs, u, v, w, wtl, wgts, rmsVr, coeff, upper_bc) ==
    LET lam == LambdaO(coeff, rmsVr)
        p(comp) ==
            LET per == Array([i \in Radars |->
                    GradEntries(vrs[i], wtl[i], wgts[i], u, v, w, lam, comp)])
            IN Array([c \in Cell |->
                   SumRadars([i \in Radars |-> per[i][c]], NRadars)])
    IN StackFlatten(p(0), p(1), Impermeability(p(2), upper_bc))

-----------------------------------------------------------------------------
(* Smoothness term *)

calculate_smoothness_cost(u, v, w, Cx, Cy, Cz) ==
    LET du == Laplace(u)
        dv == Laplace(v)
        dw == Laplace(w)
    IN SumCells([c \in Cell |-> Cx * Sq(du[c]) + Cy * Sq(dv[c]) + Cz * Sq(dw[c])])

calculate_smoothness_gradient(u, v, w, Cx, Cy, Cz, upper_bc) ==
    LET grad_u == Laplace(Laplace(u))
        grad_v == Laplace(Laplace(v))
        grad_w == Impermeability(Laplace(Laplace(w)), upper_bc)
    IN StackFlatten([c \in Cell |-> grad_u[c] * Cx * 2],
                    [c \in Cell |-> grad_v[c] * Cy * 2],
                    [c \in Cell |-> grad_w[c] * Cz * 2])

-----------------------------------------------------------------------------
(* Mass continuity term *)

\* drho_dz/rho at level k for rho = exp(-z/10000): an irrational negative
\* number that depends on the level only; -1 in the units of the model.
DrhoDzOverRho(k) == -1

\* anel_term = w/rho*drho_dz (anel=1, the only value the evaluators use)
AnelTerm(w) == Array([c \in Cell |-> w[c] * DrhoDzOverRho(c[1])])

\* div2 = dudx + dvdy + dwdz + anel_term
Div2(u, v, w) ==
  Array(
    LET dudx == Gradient(u, 2)
        dvdy == Gradient(v, 1)
        dwdz == Gradient(w, 0)
        anel == AnelTerm(w)
    IN [c \in Cell |-> dudx[c] + dvdy[c] + dwdz[c] + anel[c]])

\* coeff*np.sum(np.square(div2))/2.0 ; coeff is even in the model
calculate_mass_continuity(u, v, w, coeff) ==
    LET d == Div2(u, v, w)
    IN (coeff * SumCells([c \in Cell |-> Sq(d[c])])) \div 2

calculate_mass_continuity_gradient(u, v, w, coeff, upper_bc) ==
    LET d == Div2(u, v, w)
        gx == Gradient(d, 2)
        gy == Gradient(d, 1)
        gz == Gradient(d, 0)
    IN StackFlatten([c \in Cell |-> -gx[c] * coeff],
                    [c \in Cell |-> -gy[c] * coeff],
                    Impermeability([c \in Cell |-> -gz[c] * coeff], upper_bc))

-----------------------------------------------------------------------------
(* Background term *)

\* u_back, v_back: [given |-> BOOLEAN, data |-> sequence of values per entry].
\* u_back[i] on None, or past the end of the array, raises.
BackgroundIndexable(back) == back.given /\ Len(back.data) >= NZ

calculate_background_cost(u, v, w, wgt, u_back, v_back, Cb) ==
    SumCells([c \in Cell |->
                 Cb * (Sq(u[c] - u_back.data[c[1] + 1]) * wgt[c]
                       + Sq(v[c] - v_back.data[c[1] + 1]) * wgt[c])])

calculate_background_gradient(u, v, w, wgt, u_back, v_back, Cb) ==
    StackFlatten([c \in Cell |-> Cb * 2 * (u[c] - u_back.data[c[1] + 1]) * wgt[c]],
                 [c \in Cell |-> Cb * 2 * (v[c] - v_back.data[c[1] + 1]) * wgt[c]],
                 ZeroField)

-----------------------------------------------------------------------------
(* Vertical vorticity term *)

\* dzeta_dt / jv_array: the residual both routines form.  dvdy is taken
\* along axis 2, as the source does.
VorticityResidual(u, v, w, Ut, Vt) ==
  Array(
    LET dvdz == Gradient(v, 0)
        dudz == Gradient(u, 0)
        dvdx == Gradient(v, 2)
        dwdy == Gradient(w, 1)
        dwdx == Gradient(w, 2)
        dudx == Gradient(u, 2)
        dvdy == Gradient(v, 2)
        dudy == Gradient(u, 1)
        zeta == Array([c \in Cell |-> dvdx[c] - dudy[c]])
        dzeta_dx == Gradient(zeta, 2)
        dzeta_dy == Gradient(zeta, 1)
        dzeta_dz == Gradient(zeta, 0)
    IN [c \in Cell |->
          (u[c] - Ut) * dzeta_dx[c] + (v[c] - Vt) * dzeta_dy[c]
          + w[c] * dzeta_dz[c]
          + (dvdz[c] * dwdx[c] - dudz[c] * dwdy[c])
          + zeta[c] * (dudx[c] + dvdy[c])])

calculate_vertical_vorticity_cost(u, v, w, Ut, Vt, coeff) ==
    LET jv == VorticityResidual(u, v, w, Ut, Vt)
    IN SumCells([c \in Cell |-> coeff * Sq(jv[c])])

calculate_vertical_vorticity_gradient(u, v, w, Ut, Vt, coeff) ==
    LET dvdz == Gradient(v, 0)
        dudz == Gradient(u, 0)
        dwdy == Gradient(w, 1)
        dudx == Gradient(u, 2)
        dwdx == Gradient(w, 2)
        dvdx == Gradient(v, 2)
        dudy == Gradient(u, 1)
        zeta == Array([c \in Cell |-> dvdx[c] - dudy[c]])
        dzeta_dx == Gradient(zeta, 2)
        dzeta_dy == Gradient(zeta, 1)
        dzeta_dz == Gradient(zeta, 0)
        dwdydz == Gradient(dwdy, 0)
        dwdxdz == Gradient(dwdx, 0)
        dudzdy == Gradient(dudz, 1)
        dvdxdy == Gradient(dvdx, 1)
        dudx2 == Gradient(dudx, 2)
        dudxdy == Gradient(dudx, 1)
        dudxdz == Gradient(dudx, 0)
        dudy2 == Gradient(dudx, 1)
        dzeta_dt == VorticityResidual(u, v, w, Ut, Vt)
        u_grad == [c \in Cell |->
            (dzeta_dx[c] + (Ut - u[c]) * dudxdy[c] + (Vt - v[c]) * dudxdy[c])
            + dwdydz[c]
            + (-dudxdy[c] + dudy2[c] - dzeta_dx[c])
            + (-dudx2[c] + dudxdy[c] - dzeta_dy[c])]
        v_grad == [c \in Cell |->
            (dzeta_dy[c] + (Vt - v[c]) * dvdxdy[c] + (Ut - u[c]) * dvdxdy[c])
            + dwdxdz[c]]
        w_grad == [c \in Cell |-> dzeta_dz[c] + (dudzdy[c] - dudxdz[c])]
    IN StackFlatten([c \in Cell |-> u_grad[c] * 2 * dzeta_dt[c] * coeff],
                    [c \in Cell |-> v_grad[c] * 2 * dzeta_dt[c] * coeff],
                    [c \in Cell |-> w_grad[c] * 2 * dzeta_dt[c] * coeff])


-----------------------------------------------------------------------------
(* The evaluators.  a is the record of the arguments after winds:           *)
(* vrs (with azs, els), wts, u_back, v_back, Co .. Cv, Ut, Vt, rmsVr,       *)
(* weights, bg_weights, upper_bc.  Ut and Vt are [given, val]: None is      *)
(* given = FALSE.                                                           *)

ZeroVec == StackFlatten(ZeroField, ZeroField, ZeroField)

\* the optional terms J_function evaluates: if(Cm > 0), if(Cx > 0 or Cy > 0
\* or Cz > 0), if(Cb > 0), if(Cv > 0)
JTerms(a) ==
    (IF a.Cm > 0 THEN {"mass"} ELSE {})
        \cup (IF a.Cx > 0 \/ a.Cy > 0 \/ a.Cz > 0 THEN {"smooth"} ELSE {})
        \cup (IF a.Cb > 0 THEN {"background"} ELSE {})
        \cup (IF a.Cv > 0 THEN {"vorticity"} ELSE {})

GradTermsSmoothOnCx(a) ==
    (IF a.Cm > 0 THEN {"mass"} ELSE {})
        \cup (IF a.Cx > 0 THEN {"smooth"} ELSE {})
        \cup (IF a.Cb > 0 THEN {"background"} ELSE {})
        \cup (IF a.Cv > 0 THEN {"vorticity"} ELSE {})

\* the optional terms grad_J evaluates, by the same four tests
GradTerms(a) ==
    (IF a.Cm > 0 THEN {"mass"} ELSE {})
        \cup (IF a.Cx > 0 \/ a.Cy > 0 \/ a.Cz > 0 THEN {"smooth"} ELSE {})
        \cup (IF a.Cb > 0 THEN {"background"} ELSE {})
        \cup (IF a.Cv > 0 THEN {"vorticity"} ELSE {})

\* the exception J_function raises on the arguments a, "none" if it returns:
\* the background cost indexes u_back and v_back, the vorticity cost
\* subtracts Ut and Vt
JError(a) ==
    IF a.Cb > 0 /\ ~a.u_back.given THEN "TypeError"
    ELSE IF a.Cb > 0 /\ ~BackgroundIndexable(a.u_back) THEN "IndexError"
    ELSE IF a.Cb > 0 /\ ~a.v_back.given THEN "TypeError"
    ELSE IF a.Cb > 0 /\ ~BackgroundIndexable(a.v_back) THEN "IndexError"
    ELSE IF a.Cv > 0 /\ ~(a.Ut.given /\ a.Vt.given) THEN "TypeError"
    ELSE "none"

\* J_function: the value, the exception raised instead of it (if any), and
\* weights as the call leaves it (the data term runs first and writes it).
J_function(vec, a) ==
    LET u == Reshape(vec, 0)
        v == Reshape(vec, 1)
        w == Reshape(vec, 2)
        Jvel == calculate_radial_vel_cost_function(
                    a.vrs, u, v, w, a.wts, a.rmsVr, a.weights, a.Co)
        Jmass == IF "mass" \in JTerms(a)
                 THEN calculate_mass_continuity(u, v, w, a.Cm) ELSE 0
        Jsmooth == IF "smooth" \in JTerms(a)
                   THEN calculate_smoothness_cost(u, v, w, a.Cx, a.Cy, a.Cz)
                   ELSE 0
        Jbackground == IF "background" \in JTerms(a) /\ JError(a) = "none"
                       THEN calculate_background_cost(
                                u, v, w, a.bg_weights, a.u_back, a.v_back, a.Cb)
                       ELSE 0
        Jvorticity == IF "vorticity" \in JTerms(a) /\ JError(a) = "none"
                      THEN calculate_vertical_vorticity_cost(
                               u, v, w, a.Ut.val, a.Vt.val, a.Cv)
                      ELSE 0
        err == JError(a)
    IN [err |-> err,
        J |-> IF err = "none"
              THEN Jvel + Jmass + Jsmooth + Jbackground + Jvorticity
              ELSE 0,
        weights |-> WeightsAfterCost(a.vrs, a.wts, a.weights),
        terms |-> JTerms(a),
        parts |-> [mass |-> Jmass, smooth |-> Jsmooth,
                   background |-> Jbackground, vorticity |-> Jvorticity],
        dataCost |-> [i \in Radars |->
            CostEntries(a.vrs[i], a.wts[i], a.weights[i], u, v, w)]]

\* The term grad_J adds for the background constraint: the call passes
\* upper_bc=upper_bc to calculate_background_gradient, which has no such
\* parameter, so the call raises TypeError before the routine runs.
BackgroundGradientCall(u, v, w, a) ==
    [err |-> "TypeError", grad |-> <<>>]

\* The term grad_J adds for the vorticity constraint: the routine takes no
\* upper_bc and applies no impermeability condition.
VorticityGradientCall(u, v, w, a) ==
    calculate_vertical_vorticity_gradient(u, v, w, a.Ut.val, a.Vt.val, a.Cv)

\* the exception grad_J raises on the arguments a, "none" if it returns
GradError(a) ==
    LET bg == BackgroundGradientCall(ZeroField, ZeroField, ZeroField, a)
    IN IF a.Cb > 0 /\ bg.err # "none" THEN bg.err
       ELSE IF a.Cv > 0 /\ ~(a.Ut.given /\ a.Vt.given) THEN "TypeError"
       ELSE "none"

\* grad_J: the gradient vector, or the exception raised instead of it.
grad_J(vec, a) ==
    LET u == Reshape(vec, 0)
        v == Reshape(vec, 1)
        w == Reshape(vec, 2)
        g0 == calculate_grad_radial_vel(
                  a.vrs, u, v, w, a.wts, a.weights, a.rmsVr, a.Co, a.upper_bc)
        pmass == IF "mass" \in GradTerms(a)
                 THEN calculate_mass_continuity_gradient(u, v, w, a.Cm, a.upper_bc)
                 ELSE ZeroVec
        psmooth == IF "smooth" \in GradTerms(a)
                   THEN calculate_smoothness_gradient(
                            u, v, w, a.Cx, a.Cy, a.Cz, a.upper_bc)
                   ELSE ZeroVec
        bg == BackgroundGradientCall(u, v, w, a)
        err == GradError(a)
        pback == IF "background" \in GradTerms(a) /\ bg.err = "none"
                 THEN bg.grad ELSE ZeroVec
        pvort == IF "vorticity" \in GradTerms(a) /\ err = "none"
                 THEN VorticityGradientCall(u, v, w, a)
                 ELSE ZeroVec
        g1 == IF "mass" \in GradTerms(a) THEN VecAdd(g0, pmass) ELSE g0
        g2 == IF "smooth" \in GradTerms(a) THEN VecAdd(g1, psmooth) ELSE g1
        g3 == IF "background" \in GradTerms(a) /\ bg.err = "none"
              THEN VecAdd(g2, pback) ELSE g2
        g4 == IF "vorticity" \in GradTerms(a) /\ err = "none"
              THEN VecAdd(g3, pvort) ELSE g3
    IN [err |-> err, grad |-> IF err = "none" THEN g4 ELSE <<>>,
        terms |-> GradTerms(a),
        parts |-> [mass |-> pmass, smooth |-> psmooth,
                   background |-> pback, vorticity |-> pvort],
        dataGrad |-> [i \in Radars |-> [comp \in 0 .. 2 |->
            GradEntries(a.vrs[i], a.wts[i], a.weights[i], u, v, w,
                        LambdaO(a.Co, a.rmsVr), comp)]]]


-----------------------------------------------------------------------------
(* Inputs *)

FConst(a) == [c \in Cell |-> a]
FLin(axis) == [c \in Cell |-> c[axis + 1]]
FProd(ax1, ax2) == [c \in Cell |-> c[ax1 + 1] * c[ax2 + 1]]

\* the wind components the evaluations are run on: u, v and w fields that
\* are constant or vary with x and with height
UFields == {FConst(0), FProd(0, 2)}
VFields == {FConst(1), FProd(0, 2)}
WFields == {FConst(1), FProd(0, 2)}

Bit == {0, 1}

\* the first and the last cell of the grid, and two cells between them
CellA == <<0, 0, 0>>
CellB == <<NZ - 1, NY - 1, NX - 1>>
CellC == <<0, NY - 1, 0>>
CellD == <<NZ - 1, 0, NX - 1>>

\* line of sight of radar i: radars look along x or along y, both upward
LineOfSight(i) == IF i % 2 = 0 THEN <<1, 0, 1>> ELSE <<0, 1, 1>>

\* the grid of radar i: radial velocity vr with mask vrMask, the masks of
\* the AZ and EL fields, reflectivity refl with mask reflMask
GridOf(i, vrMask, azMask, elMask, reflMask, dbz) ==
    [vr |-> FConst(3 + i), vrMask |-> vrMask, azMask |-> azMask,
     elMask |-> elMask, los |-> FConst(LineOfSight(i)),
     refl |-> FConst(dbz), reflMask |-> reflMask, fall |-> FConst(5)]

NoBackground == [given |-> FALSE, data |-> <<>>]
BackgroundProfile(n, val) == [given |-> TRUE, data |-> [k \in 1 .. n |-> val]]

\* nan, which compares False with every number: what np.arccos returns in
\* get_bca where its argument is 0/0 or out of range, and what interp1d
\* returns outside the sounding
NaN == 999

\* a sounding of NZ levels, one every step metres, whose wind grows by rate
\* (hundredths of a m/s) from one level to the next
SoundingHeights(step) == [k \in 1 .. NZ |-> step * (k - 1)]
SoundingWinds(rate) == [given |-> TRUE, data |-> [k \in 1 .. NZ |-> rate * (k - 1)]]

\* interp1d(z_back, back, bounds_error=False)(z): linear between the two
\* sounding levels around z, nan outside the sounding
Interp1d(z_back, back, z) ==
    IF z < z_back[1] \/ z > z_back[Len(z_back)] THEN NaN
    ELSE LET n == CHOOSE n \in 1 .. Len(z_back) - 1 :
                      z_back[n] <= z /\ z <= z_back[n + 1]
         IN back[n] + ((back[n + 1] - back[n]) * (z - z_back[n]))
                          \div (z_back[n + 1] - z_back[n])

\* u_back2 = u_interp(Grids[0].z['data']): the sounding on the grid levels
InterpolatedToGrid(z_back, back) ==
    [k \in 1 .. NZ |-> Interp1d(z_back, back.data, GridZ(k - 1))]

None == [given |-> FALSE, val |-> 0]
Some(x) == [given |-> TRUE, val |-> x]

\* the keyword arguments of get_dd_wind_field at their defaults
DefaultCfg ==
    [Co |-> 1, Cm |-> 2, Cx |-> 0, Cy |-> 0, Cz |-> 0, Cb |-> 0, Cv |-> 0,
     Ut |-> None, Vt |-> None, u_back |-> NoBackground, v_back |-> NoBackground,
     z_back |-> <<>>,
     upper_bc |-> TRUE, frz |-> FrzDefault,
     filt_iterations |-> 2, max_iterations |-> 200,
     filter_window |-> 9, filter_order |-> 4,
     mask_outside_opt |-> FALSE, mask_w_outside_opt |-> TRUE,
     min_bca |-> 30, max_bca |-> 150,
     shapes |-> "same", crossing |-> <<>>]

-----------------------------------------------------------------------------
(* Evaluation of J_function and grad_J on given arguments *)

\* the argument tuple both evaluators are called with
EvalArgs(upper_bc) ==
    [vrs |-> obs, wts |-> wts, u_back |-> cfg.u_back, v_back |-> cfg.v_back,
     Co |-> cfg.Co, Cm |-> cfg.Cm, Cx |-> cfg.Cx, Cy |-> cfg.Cy, Cz |-> cfg.Cz,
     Cb |-> cfg.Cb, Cv |-> cfg.Cv, Ut |-> cfg.Ut, Vt |-> cfg.Vt,
     rmsVr |-> loopst.rmsVr, weights |-> weights, bg_weights |-> bg_weights,
     upper_bc |-> upper_bc]

\* result: J_function's value (or exception) and grad_J's vector (or
\* exception), with the per-radar arrays the data term summed in each
NoResult == [Jerr |-> "unset", J |-> 0, gerr |-> "unset", grad |-> <<>>,
             dataCost |-> <<>>, dataGrad |-> <<>>,
             Jterms |-> {}, Jparts |-> <<>>, gterms |-> {}, gparts |-> <<>>]

NoLoop == [iterations |-> 0, wprevmax |-> 0, wcurrmax |-> 0, warnflag |-> 0,
           rmsVr |-> 1, pair |-> <<0, 1>>]

InitEvalCommon ==
    /\ pc = "args"
    /\ bca = <<>>
    /\ hist = <<>>
    /\ loopst = NoLoop
    /\ result = NoResult
    /\ bg_weights = FConst(1)
    /\ weights = [i \in Radars |-> FConst(1)]

\* every coefficient set, every top-boundary policy, a family of wind fields
InitEval ==
    /\ InitEvalCommon
    /\ \E Co \in Bit, Cm \in {0, 2}, Cx \in Bit, Cy \in Bit, Cz \in Bit,
          Cb \in Bit, Cv \in Bit, bc \in BOOLEAN :
         cfg = [DefaultCfg EXCEPT !.Co = Co, !.Cm = Cm, !.Cx = Cx, !.Cy = Cy,
                                  !.Cz = Cz, !.Cb = Cb, !.Cv = Cv,
                                  !.Ut = Some(1), !.Vt = Some(0),
                                  !.u_back = BackgroundProfile(NZ, 1),
                                  !.v_back = BackgroundProfile(NZ, 0),
                                  !.upper_bc = bc]
    /\ obs = [i \in Radars |-> GridOf(i, {CellA}, {}, {}, {CellB}, 40)]
    /\ wts = [i \in Radars |-> calculate_fall_speed(obs[i], FrzDefault)]
    /\ \E u \in UFields, v \in VFields, w \in WFields :
         winds = StackFlatten(u, v, w)

\* one call J_function(winds, *args)
EvalJ ==
    /\ pc = "args"
    /\ \E r \in {J_function(winds, EvalArgs(cfg.upper_bc))} :
          /\ result' = [result EXCEPT !.Jerr = r.err, !.J = r.J,
                                      !.dataCost = r.dataCost,
                                      !.Jterms = r.terms, !.Jparts = r.parts]
          /\ weights' = r.weights
    /\ pc' = "costed"
    /\ UNCHANGED <<cfg, obs, bca, winds, bg_weights, wts, loopst, hist>>

\* one call grad_J(winds, *args)
EvalGrad ==
    /\ pc = "costed"
    /\ \E r \in {grad_J(winds, EvalArgs(cfg.upper_bc))} :
          result' = [result EXCEPT !.gerr = r.err, !.grad = r.grad,
                                   !.dataGrad = r.dataGrad,
                                   !.gterms = r.terms, !.gparts = r.parts]
    /\ pc' = "graded"
    /\ UNCHANGED <<cfg, obs, bca, winds, weights, bg_weights, wts, loopst, hist>>

NextEval == EvalJ \/ EvalGrad

SpecEval == InitEval /\ [][NextEval]_vars


\* the masks of radar i's fields: none, the velocity and the reflectivity
\* (hence the fall speed), the azimuth and the elevation, or all four
MaskChoices ==
    { <<{}, {}, {}, {}>>, <<{CellA}, {}, {}, {CellB}>>,
      <<{}, {CellC}, {CellD}, {}>>, <<{CellA}, {CellC}, {CellD}, {CellB}>> }

\* the data term alone, on every choice of masks
InitData ==
    /\ InitEvalCommon
    /\ cfg = [DefaultCfg EXCEPT !.Co = 1, !.Cm = 0]
    /\ \E m \in [Radars -> MaskChoices] :
         obs = [i \in Radars |-> GridOf(i, m[i][1], m[i][2], m[i][3], m[i][4], 40)]
    /\ wts = [i \in Radars |-> calculate_fall_speed(obs[i], FrzDefault)]
    /\ \E u \in UFields, w \in WFields : winds = StackFlatten(u, FConst(1), w)

SpecData == InitData /\ [][NextEval]_vars

-----------------------------------------------------------------------------
(* get_dd_wind_field: geometric weighting *)

\* math.radians(deg), in units of pi/180
Radians(deg) == deg

\* np.logical_and(bca >= math.radians(min_bca), bca <= math.radians(max_bca))
BcaWithin(b, min_bca, max_bca) ==
    b # NaN /\ b >= Radians(min_bca) /\ b <= Radians(max_bca)

\* np.logical_or(bca >= math.radians(min_bca), bca <= math.radians(max_bca))
BcaEither(b, min_bca, max_bca) ==
    b # NaN /\ (b >= Radians(min_bca) \/ b <= Radians(max_bca))

Horizontal(c) == <<c[2], c[3]>>

PairWeightsFirstOnly(W, grids, i, j, B, min_bca, max_bca) ==
    [r \in Radars |->
        [c \in Cell |->
            IF r = i /\ c \notin grids[r].vrMask
               /\ BcaWithin(B[Horizontal(c)], min_bca, max_bca)
            THEN W[r][c] + 1
            ELSE W[r][c]]]

\* the two weights updates of one pass of the k loop, for all k: cells of
\* radar i (of radar j) with a valid velocity and the pair's angle within
\* the range are incremented
PairWeights(W, grids, i, j, B, min_bca, max_bca) ==
    [r \in Radars |->
        [c \in Cell |->
            IF r \in {i, j} /\ c \notin grids[r].vrMask
               /\ BcaWithin(B[Horizontal(c)], min_bca, max_bca)
            THEN W[r][c] + 1
            ELSE W[r][c]]]

\* bg_weights[k] after cur_array = bg_weights[k]; cur_array[or] = 1;
\* cur_array[vrs[i][k].mask == True] = 0 (cur_array is a view of level k)
BgLevel(BG, grids, i, k, B, min_bca, max_bca) ==
    [h \in HCell |->
        IF <<k, h[1], h[2]>> \in grids[i].vrMask THEN 0
        ELSE IF BcaEither(B[h], min_bca, max_bca) THEN 1
        ELSE BG[<<k, h[1], h[2]>>]]

RECURSIVE PairBackground(_, _, _, _, _, _, _)
\* bg_weights after the passes 0 .. n-1 of the k loop of pair (i, j): each
\* pass updates level k in place, then bg_weights[i] = cur_array copies
\* level k into level i
PairBackground(BG, grids, i, n, B, min_bca, max_bca) ==
    IF n = 0 THEN BG
    ELSE LET prev == PairBackground(BG, grids, i, n - 1, B, min_bca, max_bca)
             k == n - 1
             cur == BgLevel(prev, grids, i, k, B, min_bca, max_bca)
         IN [c \in Cell |->
                IF c[1] = k \/ c[1] = i THEN cur[Horizontal(c)] ELSE prev[c]]

ThresholdOmitted(W) == W

\* weights[weights > 0] = 1
Threshold(W) == [r \in Radars |-> [c \in Cell |-> IF W[r][c] > 0 THEN 1 ELSE 0]]

\* the pair the loops for i ... for j in range(i+1, len(Grids)) visit next
NextPair(p) ==
    IF p[2] < NRadars - 1 THEN <<p[1], p[2] + 1>> ELSE <<p[1] + 1, p[1] + 2>>

PairsDone(p) == p[1] >= NRadars - 1

\* np.sum(np.square(vrs*weights)) / np.sum(weights), nan for 0/0.  The quotient is rounded down.
RmsVr(grids, W) ==
    LET num == SumRadars([i \in Radars |->
                   SumCells([c \in Cell |-> Sq(grids[i].vr[c] * W[i][c])])], NRadars)
        den == SumRadars([i \in Radars |-> SumCells(W[i])], NRadars)
    IN IF den = 0 THEN NaN ELSE num \div den

\* np.abs(w).max()
AbsFieldMax(f) == CHOOSE m \in {Abs(f[c]) : c \in Cell} : \A c \in Cell : Abs(f[c]) <= m

\* w.max()
FieldMax(f) == CHOOSE m \in {f[c] : c \in Cell} : \A c \in Cell : f[c] <= m

-----------------------------------------------------------------------------
(* get_dd_wind_field: the driver *)

Event(name, a, b) == [ev |-> name, a |-> a, b |-> b]

Happened(name) == \E n \in 1 .. Len(hist) : hist[n].ev = name

CountOf(name) == Cardinality({n \in 1 .. Len(hist) : hist[n].ev = name})

NoReturn == [error |-> "none", at |-> "", returned |-> FALSE,
             uMask |-> {}, vMask |-> {}, wMask |-> {}]

Raise(name, where) == [NoReturn EXCEPT !.error = name, !.at = where]

StormMotionBothMissing(c) == (~c.Ut.given /\ ~c.Vt.given) /\ c.Cv # 0

\* if(Ut == None or Vt == None): if(Cv != 0.0): raise ValueError
StormMotionMissing(c) == (~c.Ut.given \/ ~c.Vt.given) /\ c.Cv # 0

\* lines 125-130
Validate ==
    /\ pc = "call"
    /\ IF StormMotionMissing(cfg)
       THEN /\ pc' = "raised"
            /\ result' = Raise("ValueError", "validate")
       ELSE /\ pc' = "setup"
            /\ UNCHANGED result
    /\ UNCHANGED <<cfg, obs, bca, winds, weights, bg_weights, wts, loopst, hist>>

RECURSIVE RadarEvents(_)
\* the loop of lines 173-180 over the first n radars: the fall speed (frz is
\* not passed on: the default applies), then the azimuth and elevation fields
RadarEvents(n) ==
    IF n = 0 THEN <<>>
    ELSE RadarEvents(n - 1)
         \o <<Event("fall_speed", n - 1, FrzDefault), Event("azimuth", n - 1, 0),
              Event("elevation", n - 1, 0)>>

\* lines 132-181: the sounding is interpolated when both profiles are given
\* (otherwise C8 = 0.0 is assigned, a name nothing reads), the initial wind
\* is stacked (np.stack raises on arrays of different shapes), the weight
\* arrays are allocated and each grid's fields are collected
Setup ==
    /\ pc = "setup"
    /\ LET sounding == IF cfg.u_back.given /\ cfg.v_back.given
                       THEN <<Event("interp1d", 0, 0)>> ELSE <<>>
       IN IF cfg.shapes = "init"
          THEN /\ pc' = "raised"
               /\ result' = Raise("ValueError", "stack")
               /\ hist' = hist \o sounding
               /\ UNCHANGED <<weights, bg_weights, bca, wts>>
          ELSE /\ pc' = "weights"
               /\ hist' = hist \o sounding \o <<Event("stack", 0, 0)>>
                               \o RadarEvents(NRadars)
               /\ weights' = [i \in Radars |-> ZeroField]
               /\ bg_weights' = ZeroField
               /\ bca' = [q \in Radars \X Radars |-> [h \in HCell |-> 0]]
               /\ wts' = [i \in Radars |-> calculate_fall_speed(obs[i], FrzDefault)]
               /\ UNCHANGED result
    /\ loopst' = [loopst EXCEPT !.pair = <<0, 1>>]
    /\ UNCHANGED <<cfg, obs, winds>>

\* lines 184-214, one pass of the j loop.  With the grid of the last radar
\* of another horizontal shape, the first pass of the k loop updates
\* weights[i,0] and then fails to combine vrs[j][0].mask with bca[i,j].
\* bg_weights[i] = cur_array needs i to be a level of the grid.
WeightPair ==
    /\ pc = "weights"
    /\ ~PairsDone(loopst.pair)
    /\ LET i == loopst.pair[1]
           j == loopst.pair[2]
           B == cfg.crossing[<<i, j>>]
       IN /\ bca' = [bca EXCEPT ![<<i, j>>] = B]
          /\ IF cfg.shapes = "grid" /\ j = NRadars - 1
             THEN /\ weights' = [weights EXCEPT ![i] =
                        [c \in Cell |->
                            IF c[1] = 0 /\ c \notin obs[i].vrMask
                               /\ BcaWithin(B[Horizontal(c)], cfg.min_bca, cfg.max_bca)
                            THEN @[c] + 1 ELSE @[c]]]
                  /\ pc' = "raised"
                  /\ result' = Raise("ValueError", "weights")
                  /\ hist' = Append(hist, Event("weights", i, j))
                  /\ UNCHANGED <<bg_weights, loopst>>
             ELSE IF i >= NZ
             THEN /\ weights' = PairWeights(weights, obs, i, j, B,
                                            cfg.min_bca, cfg.max_bca)
                  /\ pc' = "raised"
                  /\ result' = Raise("IndexError", "weights")
                  /\ hist' = Append(hist, Event("weights", i, j))
                  /\ UNCHANGED <<bg_weights, loopst>>
             ELSE /\ weights' = PairWeights(weights, obs, i, j, B,
                                            cfg.min_bca, cfg.max_bca)
                  /\ bg_weights' = PairBackground(bg_weights, obs, i, NZ, B,
                                                  cfg.min_bca, cfg.max_bca)
                  /\ loopst' = [loopst EXCEPT !.pair = NextPair(@)]
                  /\ hist' = Append(hist, Event("weights", i, j))
                  /\ UNCHANGED <<pc, result>>
    /\ UNCHANGED <<cfg, obs, winds, wts>>

\* lines 216-249: the weights are collapsed to 0/1, rmsVr is formed, the
\* wind is flattened and the loop variables of the first pass are set
\* (velocities in hundredths of a m/s: wprevmax = 99)
Finalize ==
    /\ pc = "weights"
    /\ PairsDone(loopst.pair)
    /\ weights' = Threshold(weights)
    /\ loopst' = [loopst EXCEPT !.rmsVr = RmsVr(obs, Threshold(weights)),
                                !.wprevmax = 9900,
                                !.wcurrmax = FieldMax(Reshape(winds, 2)),
                                !.iterations = 0,
                                !.warnflag = 99999]
    /\ hist' = Append(hist, Event("threshold", 0, 0))
    /\ pc' = "raw"
    /\ UNCHANGED <<cfg, obs, bca, winds, bg_weights, wts, result>>

\* what one call fmin_l_bfgs_b(J_function, winds, ..., fprime=grad_J) can
\* return: the w component of the new wind and the warnflag.  An updraft of
\* 0.01 m/s, one of 0.5 m/s, and a downdraft of 0.5 m/s in one cell.
OptimizerOutcomes ==
    { [w |-> FConst(1), warnflag |-> 0],
      [w |-> FConst(50), warnflag |-> 1],
      [w |-> [c \in Cell |-> IF c = CellB THEN -50 ELSE 0], warnflag |-> 2] }

WarnflagRaisesOnAbnormal(flag) == flag = 2

\* warnflag = winds[2]['warnflag']: the flag is stored and nothing tests it
WarnflagRaises(flag) == FALSE

\* The first evaluation of fmin_l_bfgs_b: J_function(winds, *args), then
\* grad_J(winds, *args).  An exception of either ends get_dd_wind_field;
\* the values go to the optimizer only, weights stays as J_function's data
\* term leaves it.
FirstEvaluation ==
    LET a == EvalArgs(cfg.upper_bc)
    IN [err |-> IF JError(a) # "none" THEN JError(a) ELSE GradError(a),
        weights |-> WeightsAfterCost(a.vrs, a.wts, a.weights)]

RawLoopContinuesInclusive ==
    /\ loopst.iterations <= cfg.max_iterations
    /\ Abs(loopst.wprevmax - loopst.wcurrmax) > 2

\* while(iterations < max_iterations and (abs(wprevmax-wcurrmax) > 0.02))
RawLoopContinues ==
    /\ loopst.iterations < cfg.max_iterations
    /\ Abs(loopst.wprevmax - loopst.wcurrmax) > 2

\* lines 250-285, one pass of the first loop; the event of the burst records
\* the iteration count and max|w| of the wind the burst starts from
RawBurst ==
    /\ pc = "raw"
    /\ RawLoopContinues
    /\ \E ev \in {FirstEvaluation} :
          /\ weights' = ev.weights
          /\ hist' = Append(hist, Event("burst", loopst.iterations,
                                         AbsFieldMax(Reshape(winds, 2))))
          /\ IF ev.err # "none"
             THEN /\ pc' = "raised"
                  /\ result' = Raise(ev.err, "burst")
                  /\ loopst' = [loopst EXCEPT !.wprevmax = loopst.wcurrmax]
                  /\ UNCHANGED winds
             ELSE \E o \in OptimizerOutcomes :
                  /\ winds' = StackFlatten(Reshape(winds, 0), Reshape(winds, 1), o.w)
                  /\ loopst' = [loopst EXCEPT !.wprevmax = loopst.wcurrmax,
                                              !.warnflag = o.warnflag,
                                              !.iterations = @ + 10,
                                              !.wcurrmax = FieldMax(o.w)]
                  /\ IF WarnflagRaises(o.warnflag)
                     THEN pc' = "raised" /\ result' = Raise("Warnflag", "burst")
                     ELSE UNCHANGED <<pc, result>>
    /\ UNCHANGED <<cfg, obs, bca, bg_weights, wts>>

FilterAlways == TRUE

\* if(filt_iterations > 0):
FilterRequested == cfg.filt_iterations > 0

FilteredLoopContinuesInclusive == loopst.iterations <= cfg.filt_iterations

\* while(iterations < filt_iterations):
FilteredLoopContinues == loopst.iterations < cfg.filt_iterations

\* savgol_filter(f, window, order, axis): the least-squares polynomial fit
\* reproduces a field that is a polynomial of degree <= order along the
\* axis, which every field on a grid of at most order + 1 points per axis is
SavgolFilter(f, window, order, axis) == f

\* lines 288-304: the nine filter calls, each with window 9 and order 3, and
\* iterations = 0
LowPassFilter ==
    /\ pc = "raw"
    /\ ~RawLoopContinues
    /\ FilterRequested
    /\ LET F(comp) == SavgolFilter(SavgolFilter(SavgolFilter(
                          Reshape(winds, comp), 9, 3, 0), 9, 3, 1), 9, 3, 2)
       IN winds' = StackFlatten(F(0), F(1), F(2))
    /\ hist' = hist \o [n \in 1 .. 9 |-> Event("savgol", 9, 3)]
    /\ loopst' = [loopst EXCEPT !.iterations = 0]
    /\ pc' = "filtered"
    /\ UNCHANGED <<cfg, obs, bca, weights, bg_weights, wts, result>>

\* lines 305-322, one pass of the second loop
FilteredBurst ==
    /\ pc = "filtered"
    /\ FilteredLoopContinues
    /\ \E ev \in {FirstEvaluation} :
          /\ weights' = ev.weights
          /\ hist' = Append(hist, Event("filtered_burst", loopst.iterations, 0))
          /\ IF ev.err # "none"
             THEN /\ pc' = "raised"
                  /\ result' = Raise(ev.err, "filtered_burst")
                  /\ UNCHANGED <<winds, loopst>>
             ELSE \E o \in OptimizerOutcomes :
                  /\ winds' = StackFlatten(Reshape(winds, 0), Reshape(winds, 1), o.w)
                  /\ loopst' = [loopst EXCEPT !.warnflag = o.warnflag,
                                              !.iterations = @ + 1]
                  /\ IF WarnflagRaises(o.warnflag)
                     THEN pc' = "raised"
                          /\ result' = Raise("Warnflag", "filtered_burst")
                     ELSE UNCHANGED <<pc, result>>
    /\ UNCHANGED <<cfg, obs, bca, bg_weights, wts>>

\* where_mask = np.sum(weights, axis=0)
WhereMask(W) == [c \in Cell |-> SumRadars([i \in Radars |-> W[i][c]], NRadars)]

MaskedBelowTwo(W) == {c \in Cell : WhereMask(W)[c] < 2}

\* the cells np.ma.masked_where(where_mask < 1, .) masks
MaskedOutside(W) == {c \in Cell : WhereMask(W)[c] < 1}

\* lines 324-372: the wind is masked as the two options ask and attached to
\* a copy of every grid
MaskAndPackage ==
    /\ \/ pc = "raw" /\ ~RawLoopContinues /\ ~FilterRequested
       \/ pc = "filtered" /\ ~FilteredLoopContinues
    /\ LET outside == MaskedOutside(weights)
       IN result' = [NoReturn EXCEPT
              !.returned = TRUE,
              !.uMask = IF cfg.mask_outside_opt THEN outside ELSE {},
              !.vMask = IF cfg.mask_outside_opt THEN outside ELSE {},
              !.wMask = IF cfg.mask_outside_opt \/ cfg.mask_w_outside_opt
                        THEN outside ELSE {}]
    /\ hist' = Append(hist, Event("mask", 0, 0))
    /\ pc' = "done"
    /\ UNCHANGED <<cfg, obs, bca, winds, weights, bg_weights, wts, loopst>>

Next ==
    \/ Validate
    \/ Setup
    \/ WeightPair
    \/ Finalize
    \/ RawBurst
    \/ LowPassFilter
    \/ FilteredBurst
    \/ MaskAndPackage

-----------------------------------------------------------------------------
(* Calls of get_dd_wind_field *)

MaxIterationsCap == 15
MaxFiltIterations == 2

\* every pair crosses at the angle b (degrees) everywhere
CrossAll(b) == [q \in Radars \X Radars |-> [h \in HCell |-> b]]

\* every pair crosses at 90 degrees in the first column of the first row and
\* at 10 degrees elsewhere
CrossEdge ==
    [q \in Radars \X Radars |->
        [h \in HCell |-> IF h = <<0, 0>> THEN 90 ELSE 10]]

\* radars 0 and 1 cross at 90 degrees, every other pair at 170; the angle is
\* undefined in the last column of the last row
CrossMixed ==
    [q \in Radars \X Radars |->
        [h \in HCell |->
            IF h = <<NY - 1, NX - 1>> THEN NaN
            ELSE IF q = <<0, 1>> THEN 90 ELSE 170]]

CrossingChoices == {CrossAll(90), CrossEdge, CrossMixed}

\* the grids: nothing masked; radar 0 with a masked velocity in the first
\* cell and a masked reflectivity in the last; every radar so
GridChoices ==
    { [i \in Radars |-> GridOf(i, {}, {}, {}, {}, 40)],
      [i \in Radars |->
          IF i = 0 THEN GridOf(i, {CellA}, {}, {}, {CellB}, 40)
          ELSE GridOf(i, {}, {}, {}, {}, 40)],
      [i \in Radars |-> GridOf(i, {CellA}, {}, {}, {CellB}, 40)] }

\* the state at the call, but for the arguments
InitCallState ==
    /\ pc = "call"
    /\ hist = <<>>
    /\ result = NoReturn
    /\ loopst = NoLoop
    /\ bca = <<>>
    /\ weights = <<>>
    /\ bg_weights = <<>>
    /\ wts = <<>>

\* a call with u_init, v_init and w_init at rest
InitCall ==
    /\ InitCallState
    /\ winds = StackFlatten(FConst(0), FConst(0), FConst(0))

\* calls that differ in the vorticity coefficient, the storm motion and the
\* shapes of the arrays passed
InitConfigurations ==
    /\ InitCall
    /\ obs \in GridChoices
    /\ \E Cv \in {-1, 0, 1}, Ut \in {None, Some(1)}, Vt \in {None, Some(0)},
          sh \in {"same", "init", "grid"} :
         cfg = [DefaultCfg EXCEPT !.Cv = Cv, !.Ut = Ut, !.Vt = Vt, !.shapes = sh,
                                  !.max_iterations = 10, !.filt_iterations = 0,
                                  !.crossing = CrossAll(90)]

\* calls on well-formed arguments that differ in the grids, the crossing
\* angles, the background coefficient, the iteration caps and the masking
\* options
InitRetrievals ==
    /\ InitCall
    /\ obs \in GridChoices
    /\ \E Cb \in Bit, mi \in {0, 10, MaxIterationsCap},
          fi \in 0 .. MaxFiltIterations, mo \in BOOLEAN, mw \in BOOLEAN,
          cr \in CrossingChoices :
         cfg = [DefaultCfg EXCEPT !.Cb = Cb, !.max_iterations = mi,
                                  !.filt_iterations = fi,
                                  !.mask_outside_opt = mo,
                                  !.mask_w_outside_opt = mw,
                                  !.crossing = cr]

\* calls that ask for another filter window and polynomial order
InitFilters ==
    /\ InitCall
    /\ obs \in GridChoices
    /\ \E fw \in {<<5, 2>>, <<11, 4>>} :
         cfg = [DefaultCfg EXCEPT !.filter_window = fw[1], !.filter_order = fw[2],
                                  !.max_iterations = 0, !.filt_iterations = 1,
                                  !.crossing = CrossAll(90)]

\* calls with a sounding, given on the grid's levels or on levels twice as
\* far apart, that differ in the grids, the background coefficient and the
\* freezing level (the default, or one between the first two grid levels)
InitSoundings ==
    /\ InitCall
    /\ obs \in GridChoices
    /\ \E Cb \in Bit, step \in {GridZ(1), 2 * GridZ(1)},
          frz \in {FrzDefault, GridZ(1) - 1000} :
         cfg = [DefaultCfg EXCEPT !.Cb = Cb, !.frz = frz,
                                  !.u_back = SoundingWinds(200),
                                  !.v_back = SoundingWinds(100),
                                  !.z_back = SoundingHeights(step),
                                  !.max_iterations = 10, !.filt_iterations = 1,
                                  !.crossing = CrossAll(90)]

\* the initial vertical winds of InitUpdrafts, inside the bounds of
\* -100 .. 100 m/s the optimizer is given: 1 m/s everywhere, 99 m/s
\* everywhere, 99 m/s in one cell and 0 elsewhere, 99.01 m/s everywhere
UpdraftChoices ==
    { FConst(100), FConst(9900),
      [c \in Cell |-> IF c = CellB THEN 9900 ELSE 0], FConst(9901) }

\* calls that differ in w_init and in the iteration caps
InitUpdrafts ==
    /\ InitCallState
    /\ obs = [i \in Radars |-> GridOf(i, {}, {}, {}, {}, 40)]
    /\ \E w_init \in UpdraftChoices :
         winds = StackFlatten(FConst(0), FConst(0), w_init)
    /\ \E mi \in {10, MaxIterationsCap}, fi \in {0, 1} :
         cfg = [DefaultCfg EXCEPT !.max_iterations = mi, !.filt_iterations = fi,
                                  !.crossing = CrossAll(90)]

Init ==
    \/ InitConfigurations
    \/ InitRetrievals
    \/ InitFilters
    \/ InitSoundings
    \/ InitUpdrafts

Spec == Init /\ [][Next]_vars

\* calls on the grids with nothing masked that differ in the background
\* coefficient and the iteration caps
InitLive ==
    /\ InitCall
    /\ obs = [i \in Radars |-> GridOf(i, {}, {}, {}, {}, 40)]
    /\ \E Cb \in Bit, mi \in {0, 10, MaxIterationsCap},
          fi \in 0 .. MaxFiltIterations :
         cfg = [DefaultCfg EXCEPT !.Cb = Cb, !.max_iterations = mi,
                                  !.filt_iterations = fi,
                                  !.crossing = CrossAll(90)]

\* the function runs to its end: a step that can be taken is taken
SpecLive == InitLive /\ [][Next]_vars /\ WF_vars(Next)

-----------------------------------------------------------------------------
(* Calls of calculate_fall_speed *)

\* reflectivities (dBZ) around and on the band limits 33, 49, 55 and 60
ReflChoices == 30 .. 62

\* grids of one reflectivity each; the freezing level is the default (above
\* every grid level) or lies between the first two grid levels
InitFall ==
    /\ pc = "grids"
    /\ bca = <<>>
    /\ hist = <<>>
    /\ loopst = NoLoop
    /\ result = NoResult
    /\ weights = <<>>
    /\ bg_weights = <<>>
    /\ wts = <<>>
    /\ winds = ZeroVec
    /\ \E dbz \in ReflChoices, frz \in {FrzDefault, GridZ(1) - 1000} :
         /\ cfg = [DefaultCfg EXCEPT !.frz = frz]
         /\ obs = [i \in Radars |-> GridOf(i, {}, {}, {}, {}, dbz)]

\* calculate_fall_speed(grid, frz=frz) on every grid; result keeps the A and
\* B arrays the call forms
FallSpeed ==
    /\ pc = "grids"
    /\ wts' = [i \in Radars |-> calculate_fall_speed(obs[i], cfg.frz)]
    /\ result' = [i \in Radars |->
                     [c \in Cell |->
                         BandCoefficients(obs[i].refl[c], GridZ(c[1]), cfg.frz)]]
    /\ pc' = "fallen"
    /\ UNCHANGED <<cfg, obs, bca, winds, weights, bg_weights, loopst, hist>>

SpecFall == InitFall /\ [][FallSpeed]_vars

-----------------------------------------------------------------------------
(* Properties of the evaluators *)

SurfaceCells == {c \in Cell : c[1] = 0}
TopCells == {c \in Cell : c[1] = NZ - 1}

InputMasked(i) ==
    obs[i].vrMask \cup obs[i].azMask \cup obs[i].elMask \cup wts[i].mask

\* C3: at a cell where radar i's radial velocity, azimuth, elevation or fall
\* speed is masked, radar i adds exactly 0 to the data cost and to each of
\* the u, v, w components of the data gradient; and the cost and the
\* gradient leave out the same cells (radar i adds 0 to the cost at a cell
\* exactly when it adds 0 to all three gradient components there).
C3_MaskedCellsContributeZero ==
    /\ pc \in {"costed", "graded"} =>
         \A i \in Radars : \A c \in InputMasked(i) : result.dataCost[i][c] = 0
    /\ pc = "graded" =>
         \A i \in Radars :
            /\ \A c \in InputMasked(i) : \A comp \in 0 .. 2 :
                  result.dataGrad[i][comp][c] = 0
            /\ \A c \in Cell :
                  (result.dataCost[i][c] = 0)
                     <=> (\A comp \in 0 .. 2 : result.dataGrad[i][comp][c] = 0)

\* both evaluators ran on a grid where a radar has a masked fall speed at a
\* cell with a valid velocity, and adds to the cost at another cell
C3_Witness ==
    /\ pc = "graded"
    /\ \E i \in Radars :
         /\ \E c \in wts[i].mask : c \notin obs[i].vrMask
         /\ \E c \in Cell : result.dataCost[i][c] # 0

-----------------------------------------------------------------------------
(* Properties of get_dd_wind_field *)

StormMotionIncomplete == ~cfg.Ut.given \/ ~cfg.Vt.given

NothingComputed ==
    /\ hist = <<>>
    /\ weights = <<>>
    /\ bg_weights = <<>>
    /\ wts = <<>>
    /\ bca = <<>>

\* C4: a call with Cv # 0 and Ut or Vt missing ends in a ValueError raised
\* by the validation, with no weight, fall speed, azimuth/elevation field or
\* optimizer burst computed; with Cv = 0 the validation raises nothing.
C4_StormMotionValidated ==
    /\ (pc # "call" /\ cfg.Cv # 0 /\ StormMotionIncomplete)
          => /\ pc = "raised"
             /\ result.error = "ValueError"
             /\ result.at = "validate"
             /\ NothingComputed
    /\ (pc # "call" /\ cfg.Cv = 0) => result.at # "validate"

C4_Witness ==
    /\ pc = "raised"
    /\ result.at = "validate"
    /\ cfg.Cv # 0
    /\ cfg.Ut.given
    /\ ~cfg.Vt.given

\* C5: a call with arrays of different shapes (among the grids' fields or
\* among u_init, v_init, w_init) has failed once the call is past the
\* set-up, with no fall speed and no weight computed and no burst run.
C5_ShapeMismatchReportedFirst ==
    (cfg.shapes # "same" /\ pc \notin {"call", "setup"})
        => /\ pc = "raised"
           /\ ~Happened("fall_speed")
           /\ ~Happened("weights")
           /\ ~Happened("burst")

\* C6: no step of the two loops, in which J_function and grad_J are
\* evaluated, changes weights, bg_weights or the observation arrays.
C6_WeightsNeverChangeAfterInit ==
    [][(pc = "raw" \/ pc = "filtered")
          => (weights' = weights /\ bg_weights' = bg_weights /\ obs' = obs)]_vars

AfterWeighting == Happened("threshold")

\* C7: after the weighting step every entry of weights and of bg_weights is
\* 0 or 1.
C7_WeightsBinary ==
    AfterWeighting
        => /\ \A i \in Radars : \A c \in Cell : weights[i][c] \in {0, 1}
           /\ \A c \in Cell : bg_weights[c] \in {0, 1}

PairOf(i, j) == IF i < j THEN <<i, j>> ELSE <<j, i>>

InRange(i, j, c) ==
    BcaWithin(cfg.crossing[PairOf(i, j)][Horizontal(c)], cfg.min_bca, cfg.max_bca)

\* a cell of radar i that two pairs have each incremented
C7_Witness ==
    /\ pc = "raw"
    /\ \E i \in Radars : \E c \in Cell :
          /\ weights[i][c] = 1
          /\ c \notin obs[i].vrMask
          /\ Cardinality({j \in Radars \ {i} : InRange(i, j, c)}) >= 2
    /\ \E i \in Radars : \E c \in Cell : weights[i][c] = 0

RECURSIVE PairsFrom(_)
PairsFrom(p) == IF PairsDone(p) THEN <<>> ELSE <<p>> \o PairsFrom(NextPair(p))

Rotate(q, n) == [m \in 1 .. Len(q) |-> q[((m + n - 1) % Len(q)) + 1]]

Reverse(q) == [m \in 1 .. Len(q) |-> q[Len(q) + 1 - m]]

\* the pairs in the order of the loops, its rotations and their reversals
PairOrders ==
    LET q == PairsFrom(<<0, 1>>)
    IN {Rotate(q, n) : n \in 0 .. Len(q) - 1}
         \cup {Reverse(Rotate(q, n)) : n \in 0 .. Len(q) - 1}

RECURSIVE WeightsAlong(_, _)
\* the accumulated weights after the first n pairs of the order q
WeightsAlong(q, n) ==
    IF n = 0 THEN [i \in Radars |-> ZeroField]
    ELSE PairWeights(WeightsAlong(q, n - 1), obs, q[n][1], q[n][2],
                     cfg.crossing[q[n]], cfg.min_bca, cfg.max_bca)

WeightingJustDone == pc = "raw" /\ ~Happened("burst")

\* C8: when the weighting step ends, weights[i][c] is 1 if radar i's radial
\* velocity at c is valid and some other radar j crosses i at c within
\* [min_bca, max_bca], and 0 otherwise; processing the pairs in another order
\* gives the same array.
C8_WeightIffValidAndCrossed ==
    WeightingJustDone
        => /\ \A i \in Radars : \A c \in Cell :
                 weights[i][c] =
                     IF c \notin obs[i].vrMask
                        /\ \E j \in Radars \ {i} : InRange(i, j, c)
                     THEN 1 ELSE 0
           /\ \A q \in PairOrders :
                 Threshold(WeightsAlong(q, Len(q))) = weights

\* a radar with a valid velocity and no partner in range next to one with a
\* partner in range, and a masked velocity with a partner in range
C8_Witness ==
    /\ WeightingJustDone
    /\ \E i \in Radars : \E c \in Cell :
          /\ c \notin obs[i].vrMask
          /\ ~\E j \in Radars \ {i} : InRange(i, j, c)
          /\ weights[i][c] = 0
          /\ \E r \in Radars : weights[r][c] = 1
    /\ \E i \in Radars : \E c \in Cell :
          /\ c \in obs[i].vrMask
          /\ \E j \in Radars \ {i} : InRange(i, j, c)
          /\ weights[i][c] = 0

\* C9: when the weighting step ends, bg_weights[c] is 1 exactly when some
\* pair crosses at c within [min_bca, max_bca] and the pair's first radar
\* has a valid velocity at c, and is 0 where no pair crosses within the range.
C9_BackgroundWeightIffCoveredAndValid ==
    WeightingJustDone
        => \A c \in Cell :
              bg_weights[c] = 1
                  <=> \E i \in Radars : \E j \in Radars :
                         i < j /\ InRange(i, j, c) /\ c \notin obs[i].vrMask

Returned == pc = "done" /\ result.returned

C11_FewerThanTwoRadarsMasked ==
    Returned
        => \A c \in Cell :
              Cardinality({i \in Radars : weights[i][c] = 1}) < 2
                  => /\ cfg.mask_outside_opt
                           => c \in result.uMask \cap result.vMask \cap result.wMask
                     /\ cfg.mask_w_outside_opt => c \in result.wMask

LastEvent == hist[Len(hist)]

AfterRawBurst == pc = "raw" /\ Len(hist) > 0 /\ LastEvent.ev = "burst"

\* C12: after a burst of the first loop another burst runs exactly when the
\* iteration count is below max_iterations and max|w| of the wind differs
\* from max|w| before the burst by more than 0.02 m/s.
C12_ContinuesOnAbsoluteChange ==
    AfterRawBurst
        => (RawLoopContinues
               <=> /\ loopst.iterations < cfg.max_iterations
                   /\ Abs(AbsFieldMax(Reshape(winds, 2)) - LastEvent.b) > 2)

\* C13: the iterations of the first loop, ten for each burst run, never
\* exceed max_iterations (none are run when max_iterations <= 0).
C13_RawIterationsWithinCap ==
    10 * CountOf("burst") <= (IF cfg.max_iterations > 0 THEN cfg.max_iterations ELSE 0)

\* the phase an event of the log belongs to: 1 INIT, 2 RAW_SOLVE, 3 FILTER,
\* 4 FILTERED_SOLVE, 5 MASK_AND_PACKAGE
PhaseOf(e) ==
    CASE e.ev = "burst" -> 2
      [] e.ev = "savgol" -> 3
      [] e.ev = "filtered_burst" -> 4
      [] e.ev = "mask" -> 5
      [] OTHER -> 1

InitComplete ==
    /\ CountOf("fall_speed") = NRadars
    /\ CountOf("weights") = (NRadars * (NRadars - 1)) \div 2
    /\ CountOf("threshold") = 1

\* C14: the events of a run are in the order INIT, RAW_SOLVE, FILTER,
\* FILTERED_SOLVE, MASK_AND_PACKAGE; a burst, a filter call or a masking
\* happens only after all fall speeds and weights are computed and
\* thresholded; nothing follows the masking, which a returned run has done
\* once; with filt_iterations = 0 there is no filter call and no
\* post-filter burst.
C14_PhasesInOrder ==
    /\ \A m \in 1 .. Len(hist) : \A n \in m .. Len(hist) :
          PhaseOf(hist[m]) <= PhaseOf(hist[n])
    /\ (\E n \in 1 .. Len(hist) : PhaseOf(hist[n]) > 1) => InitComplete
    /\ pc \in {"raw", "filtered", "done"} => InitComplete
    /\ Happened("mask") <=> pc = "done"
    /\ CountOf("mask") <= 1
    /\ cfg.filt_iterations = 0
          => ~Happened("savgol") /\ ~Happened("filtered_burst")

C14_Witness ==
    /\ Returned
    /\ Happened("burst")
    /\ Happened("savgol")
    /\ Happened("filtered_burst")
    /\ LastEvent.ev = "mask"

\* C15: a post-filter burst directly follows a filter call or another
\* post-filter burst, and a returned run with filt_iterations > 0 has run
\* exactly filt_iterations of them, whatever w the bursts returned.
C15_FilteredBurstsFixedCount ==
    /\ \A n \in 1 .. Len(hist) :
          hist[n].ev = "filtered_burst"
              => n > 1 /\ hist[n - 1].ev \in {"savgol", "filtered_burst"}
    /\ (Returned /\ cfg.filt_iterations > 0)
          => CountOf("filtered_burst") = cfg.filt_iterations

\* two post-filter bursts were run although the last one left max w as the
\* first loop had it
C15_Witness ==
    /\ Returned
    /\ cfg.filt_iterations = 2
    /\ CountOf("filtered_burst") = 2
    /\ FieldMax(Reshape(winds, 2)) = loopst.wcurrmax

\* C16: every call of the low-pass filter is made with the window and the
\* polynomial order the caller passed as filter_window and filter_order.
C16_FilterUsesCallerWindowAndOrder ==
    \A n \in 1 .. Len(hist) :
        hist[n].ev = "savgol"
            => hist[n].a = cfg.filter_window /\ hist[n].b = cfg.filter_order

WarnFlags == {o.warnflag : o \in OptimizerOutcomes}

BurstReturned(flag) ==
    /\ pc \in {"raw", "filtered"}
    /\ Happened("burst") \/ Happened("filtered_burst")
    /\ loopst.warnflag = flag

\* C17: whatever warnflag a burst of either loop returns, the run goes on
\* to mask and return a wind; an exception leaves a burst only from the
\* evaluation of J_function or grad_J.
C17_WarnflagNotFatal ==
    /\ [](pc = "raised" /\ result.at \in {"burst", "filtered_burst"}
             => result.error \in {"TypeError", "IndexError"})
    /\ (\E flag \in WarnFlags : BurstReturned(flag)) ~> Returned

\* a wind returned after bursts of both loops, the last of which ended
\* abnormally
C17_Witness ==
    /\ Returned
    /\ Happened("burst")
    /\ Happened("filtered_burst")
    /\ loopst.warnflag = 2

\* C18: for every coefficient set, with the storm motion and a background
\* profile supplied, grad_J returns a vector of the length of the flattened
\* wind.
C18_GradientReturnsForEveryCoefficientSet ==
    pc = "graded"
        => /\ result.gerr = "none"
           /\ DOMAIN result.grad = 1 .. 3 * NCells
           /\ DOMAIN result.grad = DOMAIN winds

Terms == {"mass", "smooth", "background", "vorticity"}

\* the coefficients of a term of the arguments are all 0
CoefficientsZero(t) ==
    CASE t = "mass" -> cfg.Cm = 0
      [] t = "smooth" -> cfg.Cx = 0 /\ cfg.Cy = 0 /\ cfg.Cz = 0
      [] t = "background" -> cfg.Cb = 0
      [] t = "vorticity" -> cfg.Cv = 0

C20_NoBackgroundDisablesConstraint ==
    (~cfg.u_back.given \/ ~cfg.v_back.given)
        => /\ ~(pc = "raised" /\ result.at \in {"burst", "filtered_burst"})
           /\ pc \in {"raw", "filtered"} => EvalArgs(cfg.upper_bc).Cb = 0

\* C21: once a burst has evaluated the background term (profiles given,
\* Cb > 0), the value u and v are compared with at grid level k is the
\* sounding interpolated to the height of level k.
C21_BackgroundInterpolatedToGrid ==
    (Happened("burst") /\ cfg.Cb > 0 /\ cfg.u_back.given /\ cfg.v_back.given)
        => LET a == EvalArgs(cfg.upper_bc)
           IN \A k \in Levels :
                 /\ a.u_back.data[k + 1]
                        = InterpolatedToGrid(cfg.z_back, cfg.u_back)[k + 1]
                 /\ a.v_back.data[k + 1]
                        = InterpolatedToGrid(cfg.z_back, cfg.v_back)[k + 1]

\* C22: every call of calculate_fall_speed made by the retrieval selects,
\* at every cell of every radar, the band of the freezing level frz that
\* get_dd_wind_field was given: the cell counts as below freezing exactly
\* when its height is below frz.
C22_FallSpeedUsesConfiguredFrz ==
    \A n \in 1 .. Len(hist) :
        hist[n].ev = "fall_speed"
            => \A c \in Cell :
                  /\ (GridZ(c[1]) < hist[n].b) <=> (GridZ(c[1]) < cfg.frz)
                  /\ BandCoefficients(obs[hist[n].a].refl[c], GridZ(c[1]), hist[n].b)
                       = BandCoefficients(obs[hist[n].a].refl[c], GridZ(c[1]), cfg.frz)

\* C23: calculate_fall_speed selects at every cell the pair of the band the
\* reflectivity lies in, the limits 33, 49, 55 and 60 dBZ included: below
\* the freezing level (-2.6, 0.0107) under 55 dBZ, (-2.5, 0.013) from 55 to
\* 60 dBZ, (-3.95, 0.0148) above; at or above it (-0.817, 0.0063) under
\* 33 dBZ, (-2.5, 0.013) from 33 to 49 dBZ, (-3.95, 0.0148) above.  No cell
\* keeps A = 0, B = 0.
C23_EveryReflectivityInOneBand ==
    pc = "fallen"
        => \A i \in Radars, c \in Cell :
              LET refl == obs[i].refl[c]
                  below == GridZ(c[1]) < cfg.frz
                  AB == result[i][c]
              IN /\ AB # <<0, 0>>
                 /\ AB \in {<<-2600, 107>>, <<-2500, 130>>, <<-3950, 148>>,
                             <<-817, 63>>}
                 /\ (below /\ refl < 55) => AB = <<-2600, 107>>
                 /\ (below /\ refl > 55 /\ refl < 60) => AB = <<-2500, 130>>
                 /\ (below /\ refl > 60) => AB = <<-3950, 148>>
                 /\ (~below /\ refl < 33) => AB = <<-817, 63>>
                 /\ (~below /\ refl > 33 /\ refl < 49) => AB = <<-2500, 130>>
                 /\ (~below /\ refl > 49) => AB = <<-3950, 148>>
                 /\ (wts[i].data[c] = 0) <=> (AB[1] = 0)

\* the wind vector with entry n moved by d
Perturbed(vec, n, d) == [vec EXCEPT ![n] = @ + d]

\* the w entries calculate_grad_radial_vel and the other gradient routines
\* set to 0: the lowest level, and the highest one under upper_bc
ForcedToZero(n) ==
    /\ n > 2 * NCells
    /\ LET k == CellAt(n - 2 * NCells)[1]
       IN k = 0 \/ (cfg.upper_bc /\ k = NZ - 1)

\* 12 times the derivative of J_function along entry n of the wind vector:
\* the five-point difference, exact for the polynomial (of degree 4 at
\* most) that J_function is in one entry
TwelveTimesSlope(vec, a, n) ==
    8 * (J_function(Perturbed(vec, n, 1), a).J
           - J_function(Perturbed(vec, n, -1), a).J)
      - (J_function(Perturbed(vec, n, 2), a).J
           - J_function(Perturbed(vec, n, -2), a).J)

\* C24: where both evaluators return, every entry of grad_J's vector that
\* impermeability does not force to 0 is the derivative of J_function
\* along that entry, for every coefficient set (single terms and sums).
C24_GradientIsDerivativeOfCost ==
    (pc = "graded" /\ result.Jerr = "none" /\ result.gerr = "none")
        => \A n \in 1 .. 3 * NCells :
              ~ForcedToZero(n)
                 => 12 * result.grad[n]
                      = TwelveTimesSlope(winds, EvalArgs(cfg.upper_bc), n)

\* the residual of the vertical vorticity tendency equation with every
\* derivative along its own axis (x: axis 2, y: axis 1, z: axis 0)
TendencyResidual(u, v, w, Ut, Vt) ==
  Array(
    LET dvdz == Gradient(v, 0)
        dudz == Gradient(u, 0)
        dvdx == Gradient(v, 2)
        dwdy == Gradient(w, 1)
        dwdx == Gradient(w, 2)
        dudx == Gradient(u, 2)
        dvdy == Gradient(v, 1)
        dudy == Gradient(u, 1)
        zeta == Array([c \in Cell |-> dvdx[c] - dudy[c]])
        dzeta_dx == Gradient(zeta, 2)
        dzeta_dy == Gradient(zeta, 1)
        dzeta_dz == Gradient(zeta, 0)
    IN [c \in Cell |->
          (u[c] - Ut) * dzeta_dx[c] + (v[c] - Vt) * dzeta_dy[c]
          + w[c] * dzeta_dz[c]
          + (dvdz[c] * dwdx[c] - dudz[c] * dwdy[c])
          + zeta[c] * (dudx[c] + dvdy[c])])

\* C25: the vorticity cost J_function adds is Cv times the sum over the
\* cells of the squared tendency residual, in which dv/dy is the derivative
\* of v along y.
C25_VorticityCostUsesTendencyResidual ==
    (pc \in {"costed", "graded"} /\ result.Jerr = "none" /\ cfg.Cv > 0)
        => LET r == TendencyResidual(Reshape(winds, 0), Reshape(winds, 1),
                                     Reshape(winds, 2), cfg.Ut.val, cfg.Vt.val)
           IN result.Jparts["vorticity"]
                 = cfg.Cv * SumCells([c \in Cell |-> Sq(r[c])])

\* C26: a run with max_iterations > 0 that has left the first loop has run
\* at least one burst, whatever w_init is.
C26_FirstBurstAlwaysRuns ==
    (cfg.max_iterations > 0 /\ pc \in {"filtered", "done"})
        => Happened("burst")

\* ceil(n / 10) for n >= 0
CeilTenth(n) == (n + 9) \div 10

\* a burst of either loop left by an exception of an evaluation
BurstFailed == pc = "raised" /\ result.at \in {"burst", "filtered_burst"}

\* C27: a run whose bursts all return reaches the end of get_dd_wind_field:
\* the first loop runs ceil(max_iterations/10) bursts at most, its counter
\* growing by 10 with each burst; the second loop runs filt_iterations
\* bursts exactly, its counter growing by 1 with each burst.
C27_RunEndsWithinIterationCaps ==
    /\ [](CountOf("burst") <= CeilTenth(cfg.max_iterations))
    /\ [](pc = "raw" => loopst.iterations = 10 * CountOf("burst"))
    /\ [](pc = "filtered" => loopst.iterations = CountOf("filtered_burst"))
    /\ [](Returned => CountOf("filtered_burst") = cfg.filt_iterations)
    /\ (pc = "raw") ~> (Returned \/ BurstFailed)

\* a wind returned after as many bursts as both caps allow: two of the
\* first loop under max_iterations = 15 and two of the second
C27_Witness ==
    /\ Returned
    /\ cfg.max_iterations = MaxIterationsCap
    /\ CountOf("burst") = CeilTenth(MaxIterationsCap)
    /\ cfg.filt_iterations = MaxFiltIterations
    /\ CountOf("filtered_burst") = MaxFiltIterations

====
